---- MODULE Spec2Model ----
(***************************************************************************)
(* Job orchestration and subprocess supervision of the transparent video   *)
(* creator: the consolidated backend (src/app_new.py) and the legacy       *)
(* backend (src/app.py), modelled statement by statement where threads     *)
(* can interleave.  The variable app says which of the two modules runs;   *)
(* it is fixed at start-up.  Server-side processing is enabled             *)
(* (ENABLE_FILE_UPLOADS) and the rate limiter lets every request through.  *)
(*                                                                         *)
(* Time is counted in hours (the Reaper sleeps one hour between sweeps and *)
(* expires jobs after two).  An encoder (ffmpeg) is a process of its own:  *)
(* once spawned it runs until it exits by itself or is killed.             *)
(***************************************************************************)
EXTENDS Integers, Sequences, FiniteSets, TLC

\* ---------------------------------------------------------------- bounds
MaxRequests == 2          \* StartJob requests issued in one behaviour
MaxTime     == 3          \* the clock stops here
MaxTimers   == 1          \* post-download cleanup timers in one behaviour
MaxFrame    == 2          \* largest frame counter an encoder prints
MaxNames    == 3          \* most files of a job whose renaming is followed
MaxTotal    == 50         \* most frames of a job whose output loop is followed
MaxLine     == 3          \* most items of one line of encoder output
MaxLines    == 2          \* lines of encoder output read in one behaviour
MaxSweeps   == 2          \* sweeps of the Reaper that are followed item by item
MaxInserts  == 1          \* jobs registered while those sweeps run

\* ------------------------------------------------------ program constants
TTL == 2                  \* timedelta(hours=2) / 7200 seconds
FPS_MIN == 1              \* max(1, min(60, fps))
FPS_MAX == 60
FPS_DEFAULT == 24         \* data.get('fps', 24)
MAX_FRAME_COUNT == 2      \* Config.MAX_FRAME_COUNT, as set in the environment

Apps    == {"app_new", "app"}
JobIds  == {"j1", "j2"}
Codecs  == {"vp9", "vp8", "gif", "prores", "qtrle"}
\* What a request may carry.  The pipeline's control flow tells gif (two
\* phases) from the four single-pass codecs, which differ only in the
\* command line: vp9 stands for them; h264 is a codec outside the list.
ReqCodecs == {"vp9", "gif", "h264"}
Uploads  == 1..Cardinality(JobIds)     \* the POST /upload requests
Requests == 1..MaxRequests             \* request r starts pipeline thread r
\* the frame rates a client may send: the default, the two ends of the
\* accepted range and their neighbours outside it
FpsSent == {FPS_MIN - 2, FPS_MIN - 1, FPS_MIN, FPS_DEFAULT, FPS_MAX, FPS_MAX + 1}
Timers   == 1..MaxTimers

\* What the clients do in one behaviour: how many uploads, StartJob requests
\* and downloads they send, and how many hours the server stays up.  Each load
\* stretches one side of the system: StartJob requests racing on one job; one
\* job that is processed, downloaded and grows old; two jobs left to the
\* Reaper; one upload of any size and one request that tries every frame rate.
\* frames is the set of sizes of the uploads (their numbers of valid PNG
\* files), fps the set of frame rates the requests carry.
Loads == { [jobs |-> 1, requests |-> MaxRequests, timers |-> 0, ticks |-> 0,
            frames |-> 1..MAX_FRAME_COUNT, fps |-> {FPS_DEFAULT}],
           [jobs |-> 1, requests |-> 1, timers |-> MaxTimers, ticks |-> MaxTime,
            frames |-> 1..MAX_FRAME_COUNT, fps |-> {FPS_DEFAULT}],
           [jobs |-> 2, requests |-> 0, timers |-> 0, ticks |-> MaxTime,
            frames |-> 1..MAX_FRAME_COUNT, fps |-> {FPS_DEFAULT}],
           [jobs |-> 1, requests |-> 1, timers |-> 0, ticks |-> 0,
            frames |-> 0..(MAX_FRAME_COUNT + 1), fps |-> FpsSent] }

VARIABLES
  app,              \* which module is running
  load,             \* what the clients will do
  rn,               \* the rename loop of one pipeline, file by file
  pg,               \* the loop of one pipeline over its encoder's output
  sw,               \* one Reaper and the dict it iterates over, item by item
  up,               \* the POST /upload requests and their answers
  now,              \* the clock, in hours
  processing_jobs,  \* the keys of the processing_jobs dict
  job,              \* the record (dict) of each job id; it outlives its key
  fs,               \* the job directories on disk
  req,              \* the POST /process/<job_id> handlers
  thr,              \* the process_job threads
  reaper,           \* the cleanup_old_jobs thread
  tm,               \* the threading.Timer(60, cleanup_job) threads
  app_stats         \* the counters of app_new

vars == <<app, load, sw, rn, pg, up, now, processing_jobs, job, fs, req, thr, reaper, tm, app_stats>>

\* ------------------------------------------------------------ initial state
\* The record of a job.  The records of app carry neither created_at nor
\* updated_at: there created_at only remembers when the job was registered.
\* output is the extension of the output file the record names; output_size
\* and processing_time say whether the key has been written.
NoJob == [status |-> "none", nfiles |-> 0, progress |-> 0, created_at |-> 0,
          updated_at |-> 0, output |-> "none", output_size |-> FALSE,
          processing_time |-> FALSE, error |-> "none"]

\* an upload request: n valid PNG files were sent; job is the id it registered
NoUp == [n |-> 0, resp |-> "none", job |-> "j1"]

\* out: the extensions of the output files that exist in the directory
\* rmfail remembers that an rmtree of the directory has raised
NoDir == [dir |-> FALSE, out |-> {}, ctime |-> 0, rmfail |-> FALSE]

\* fps is the frame rate the request carries
NoReq == [pc |-> "free", job |-> "j1", codec |-> "vp9", fps |-> FPS_DEFAULT,
          resp |-> "none"]

\* fps is the argument of process_job, which every encoder command line gets
\* as -framerate and fps=; ran lists the encoder commands the thread has
\* spawned, in order
NoThr == [pc |-> "none", job |-> "j1", codec |-> "vp9", fps |-> FPS_DEFAULT,
          r1 |-> "none", r2 |-> "none", success |-> FALSE, frame |-> 0,
          ran |-> <<>>]

\* a GET /download request and the Timer it starts: resp is the answer of the
\* request, pc follows the request and then cleanup_job in the Timer thread
NoTimer == [pc |-> "unused", job |-> "j1", resp |-> "none"]

\* todo is jobs_to_remove, cur the job cleanup_job is working on; expired
\* remembers which jobs were past the TTL when the current sweep began
\* and how the last sweep ended
NoReaper == [pc |-> "sleep", todo |-> {}, cur |-> "j1", expired |-> {},
             ended |-> "none"]

\* The rename loop before it has started, on a job without files.  files is
\* sorted(job['files']), i the index of the loop, dir what each file name of
\* the job directory holds (the name under which the frame was uploaded, or
\* "none" when there is no such file), lost the registered names that had no
\* file when the loop began.
NoRename == [pc |-> "idle", files |-> <<>>, i |-> 0, lost |-> {},
             dir |-> [f \in {} |-> "none"]]

\* The Reaper before its sweeps are followed item by item, on an empty dict.
\* entries are the slots of the dict in the order of insertion, a deleted key
\* leaving a dummy; old are the keys whose job is past the TTL.  The iterator
\* of the for statement stands after slot pos, len0 is the size of the dict
\* when it was made and left the number of items it has still to give.  todo
\* is jobs_to_remove and cur the argument of cleanup_job; expired are the
\* keys that were in the dict and past the TTL when the sweep began, ended how
\* the last sweep ended and sweeps how many have begun.  timer follows one
\* Timer thread in cleanup_job(tkey), inserts counts the registrations.
NoSweep == [pc |-> "idle", entries |-> <<>>, old |-> {}, pos |-> 0, len0 |-> 0,
            left |-> 0, todo |-> <<>>, cur |-> "none", expired |-> {},
            ended |-> "none", sweeps |-> 0, timer |-> "idle", tkey |-> "none",
            inserts |-> 0]

\* The loop over the encoder's output before it has read a line, on a job
\* without frames.  n is len(files), read the number of lines read, last how
\* the body of the loop goes on the line last read, current_frame the local
\* variable of that name (0 while unassigned); status, progress and error are
\* those of the job's record.
NoProgress == [pc |-> "idle", n |-> 0, read |-> 0, last |-> "none",
               current_frame |-> 0,
               status |-> "none", progress |-> 0, error |-> "none"]

Init ==
  /\ app \in Apps
  /\ load \in Loads
  /\ sw = NoSweep
  /\ rn = NoRename
  /\ pg = NoProgress
  /\ up = [u \in Uploads |-> NoUp]
  /\ now = 0
  /\ processing_jobs = {}
  /\ job = [j \in JobIds |-> NoJob]
  /\ fs = [j \in JobIds |-> NoDir]
  /\ req = [r \in Requests |-> NoReq]
  /\ thr = [r \in Requests |-> NoThr]
  /\ reaper = NoReaper
  /\ tm = [k \in Timers |-> NoTimer]
  /\ app_stats = [total_jobs |-> 0, active_jobs |-> 0, completed_jobs |-> 0,
                  failed_jobs |-> 0]

\* ------------------------------------------------------------------ helpers
Min(a, b) == IF a < b THEN a ELSE b
Max(a, b) == IF a > b THEN a ELSE b

\* an id generator that hands out any id that is not a key at the moment
FreeId(j) == j \notin processing_jobs

\* uuid4 never repeats: ids are handed out in order, each once
Used == {j \in JobIds : job[j].status # "none"}
NextId(j) == /\ j \notin Used
             /\ (j = "j2" => "j1" \in Used)

\* current_frame / len(files) and the product with 100 are computed on
\* floats, IEEE 754 doubles with a mantissa of 53 bits, rounded to nearest
\* even after each operation.  A positive double is a record [d, e] that
\* stands for (1 + d[1]/L + d[2]/L^2 + d[3]/L^3 + d[4]/L^4) * 2^e where
\* L = 2^13: the leading 1 of the mantissa and four limbs of 13 bits.  The
\* steps are functions, so that each works on the values of the step before.
Pow2[k \in Nat] == IF k = 0 THEN 1 ELSE 2 * Pow2[k - 1]

\* the largest e with d * 2^e <= c, for c >= d >= 1
Log2[c \in Nat, d \in Nat] == IF 2 * d > c THEN 0 ELSE 1 + Log2[c, 2 * d]

LimbBits == 13
Limb == Pow2[LimbBits]
Doubles == [d : Seq(Nat), e : Int]

\* round to nearest, ties to even: guard is the first bit that was cut off,
\* sticky says whether a lower one was set; a carry out of the limbs doubles
\* the value
RoundEven[d \in Seq(Nat), guard \in {0, 1}, sticky \in BOOLEAN, e \in Int] ==
  IF guard = 1 /\ (sticky \/ d[4] % 2 = 1)
  THEN LET lo == d[3] * Limb + d[4] + 1
           hi == d[1] * Limb + d[2] + lo \div (Limb * Limb)
       IN  [d |-> <<(hi \div Limb) % Limb, hi % Limb,
                    (lo \div Limb) % Limb, lo % Limb>>,
            e |-> e + hi \div (Limb * Limb)]
  ELSE [d |-> d, e |-> e]

\* long division: k limbs of r / den for 0 <= r < den, and the remainder
LongDiv[r \in Nat, den \in Nat, k \in Nat] ==
  IF k = 0 THEN <<r>>
  ELSE <<(r * Limb) \div den>> \o LongDiv[(r * Limb) % den, den, k - 1]

\* the quotient q and remainder q[5] of a long division, rounded
RoundDiv[q \in Seq(Nat), den \in Nat, e \in Int] ==
  RoundEven[SubSeq(q, 1, 4), IF 2 * q[5] >= den THEN 1 ELSE 0,
            (2 * q[5]) % den # 0, e]

\* c / n for integers c, n >= 1: c and n are scaled to num and den with
\* 1 <= num / den < 2
FDiv[c \in Nat, n \in Nat] ==
  LET shl == IF c >= n THEN Log2[c, n] ELSE 0
      shr == IF c >= n THEN 0 ELSE Log2[n - 1, c] + 1
  IN  RoundDiv[LongDiv[c * Pow2[shr] - n * Pow2[shl], n * Pow2[shl], 4],
               n * Pow2[shl], shl - shr]

\* the limbs i..1 of d times k, with the carry that comes out in front
CarryMul[d \in Seq(Nat), k \in Nat, i \in Nat, carry \in Nat] ==
  IF i = 0 THEN <<carry>>
  ELSE CarryMul[d, k, i - 1, (d[i] * k + carry) \div Limb]
         \o <<(d[i] * k + carry) % Limb>>

\* top and the limbs m stand for a value in 2^s .. 2^(s+1), S = 2^s: its
\* lowest s bits are rounded away
ShiftRound[top \in Nat, m \in Seq(Nat), s \in Nat, S \in Nat, e \in Int] ==
  RoundEven[<<m[1] \div S + (top % S) * (Limb \div S),
              m[2] \div S + (m[1] % S) * (Limb \div S),
              m[3] \div S + (m[2] % S) * (Limb \div S),
              m[4] \div S + (m[3] % S) * (Limb \div S)>>,
            (2 * (m[4] % S)) \div S, (2 * (m[4] % S)) % S # 0, e + s]

\* p is the exact product of a mantissa with k, its carry in front
Shift[p \in Seq(Nat), k \in Nat, s \in Nat, e \in Int] ==
  ShiftRound[p[1] + k, Tail(p), s, Pow2[s], e]

\* x * k for a double x and an integer k with 2 <= k < 2^13
FMul[x \in Doubles, k \in Nat] ==
  LET p == CarryMul[x.d, k, 4, 0]
  IN  Shift[p, k, Log2[p[1] + k, 1], x.e]

\* int(x) for a double 0 < x < 2^27: the digits before the binary point
Trunc[x \in Doubles] ==
  IF x.e < 0 THEN 0
  ELSE IF x.e <= LimbBits THEN Pow2[x.e] + x.d[1] \div Pow2[LimbBits - x.e]
  ELSE Pow2[x.e] + x.d[1] * Pow2[x.e - LimbBits]
         + x.d[2] \div Pow2[2 * LimbBits - x.e]

\* int((current_frame / len(files)) * 100): the sign is kept apart, int()
\* cuts off towards zero
Percent(c, n) ==
  IF c = 0 THEN 0
  ELSE IF c > 0 THEN Trunc[FMul[FDiv[c, n], 100]]
  ELSE 0 - Trunc[FMul[FDiv[0 - c, n], 100]]

\* min(100, int((current_frame / len(files)) * 100))
Progress(c, n) == Min(100, Percent(c, n))

\* the extension of output_file: app_new looks the codec up in a dict with
\* 'webm' as the default, app tests vp9/vp8, then gif, and takes mov otherwise
OutputExt(c) ==
  IF app = "app_new"
  THEN (CASE c \in {"vp9", "vp8"} -> "webm"
          [] c = "gif" -> "gif"
          [] c \in {"prores", "qtrle"} -> "mov"
          [] OTHER -> "webm")
  ELSE (IF c \in {"vp9", "vp8"} THEN "webm"
        ELSE IF c = "gif" THEN "gif" ELSE "mov")

\* --------------------------------------------------------------- the clock
Tick ==
  /\ now < load.ticks
  /\ now' = now + 1
  /\ reaper' = IF reaper.pc = "sleep" THEN [reaper EXCEPT !.pc = "due"]
                ELSE reaper
  /\ UNCHANGED <<app, load, sw, rn, pg, up, processing_jobs, job, fs, req, thr, tm, app_stats>>

\* ------------------------------------------------------------- upload_files
\* validate_files of app_new: at least one valid PNG file and no more than
\* MAX_FRAME_COUNT; app only rejects an upload without a valid file (after it
\* has made the directory, which it removes again)
ValidUpload(n) == /\ n >= 1
                  /\ (app = "app_new" => n <= MAX_FRAME_COUNT)

\* n is the number of files of the upload that pass allowed_file, j the id
\* uuid4 hands out if the upload is registered
upload_files(u, j, n) ==
  /\ up[u].resp = "none"
  /\ u <= load.jobs
  /\ (u > 1 => up[u - 1].resp # "none")
  /\ n \in load.frames
  /\ NextId(j)
  /\ IF ValidUpload(n)
     THEN /\ up' = [up EXCEPT ![u] = [n |-> n, resp |-> "Registered", job |-> j]]
          /\ job' = [job EXCEPT ![j] = [NoJob EXCEPT !.status = "uploaded",
                                                     !.nfiles = n,
                                                     !.created_at = now,
                                                     !.updated_at = now]]
          /\ processing_jobs' = processing_jobs \cup {j}
          /\ fs' = [fs EXCEPT ![j] = [NoDir EXCEPT !.dir = TRUE,
                                      !.ctime = IF app = "app" THEN now ELSE 0]]
          /\ app_stats' = IF app = "app_new"
                          THEN [app_stats EXCEPT !.total_jobs = @ + 1,
                                                 !.active_jobs = @ + 1]
                          ELSE app_stats
     ELSE /\ up' = [up EXCEPT ![u] = [NoUp EXCEPT !.n = n, !.resp = "InvalidInput"]]
          /\ UNCHANGED <<job, processing_jobs, fs, app_stats>>
  /\ UNCHANGED <<app, load, sw, rn, pg, now, req, thr, reaper, tm>>

\* ------------------------------------------------------------ process_video
\* if job_id not in processing_jobs: 404 'Job not found'
pv_check(r, j, c, f) ==
  /\ req[r].pc = "free"
  /\ r <= load.requests
  /\ (r > 1 => req[r - 1].pc # "free")
  /\ f \in load.fps
  /\ req' = [req EXCEPT ![r] =
       IF j \notin processing_jobs
       THEN [NoReq EXCEPT !.pc = "done", !.job = j, !.resp = "NotFound"]
       ELSE [NoReq EXCEPT !.pc = "known", !.job = j, !.codec = c, !.fps = f]]
  /\ UNCHANGED <<app, load, sw, rn, pg, up, now, processing_jobs, job, fs, thr, reaper, tm, app_stats>>

\* job = processing_jobs[job_id], outside any try block: a key that has been
\* deleted since the test raises KeyError and the request is answered 500;
\* then if job['status'] != 'uploaded': 400
pv_lookup(r) ==
  /\ req[r].pc = "known"
  /\ req' = [req EXCEPT ![r] =
       IF req[r].job \notin processing_jobs
       THEN [NoReq EXCEPT !.pc = "done", !.job = req[r].job,
                          !.resp = "ServerError"]
       ELSE IF job[req[r].job].status # "uploaded"
       THEN [NoReq EXCEPT !.pc = "done", !.job = req[r].job,
                          !.resp = "InvalidState"]
       ELSE [req[r] EXCEPT !.pc = "checked"]]
  /\ UNCHANGED <<app, load, sw, rn, pg, up, now, processing_jobs, job, fs, thr, reaper, tm, app_stats>>

\* app_new validates the codec; app does not
CodecAccepted(c) == app = "app_new" => c \in Codecs

\* fps = max(1, min(60, data.get('fps', 24))) in app_new, and
\* fps = data.get('fps', 24) in app
Fps(f) == IF app = "app_new" THEN Max(FPS_MIN, Min(FPS_MAX, f)) ELSE f

\* the parameters are read and the pipeline thread is started
pv_spawn(r) ==
  /\ req[r].pc = "checked"
  /\ IF CodecAccepted(req[r].codec)
     THEN /\ req' = [req EXCEPT ![r].pc = "done", ![r].codec = "vp9",
                                 ![r].resp = "Accepted"]
          /\ thr' = [thr EXCEPT ![r] = [NoThr EXCEPT !.pc = "start",
                                                     !.job = req[r].job,
                                                     !.codec = req[r].codec,
                                                     !.fps = Fps(req[r].fps)]]
     ELSE /\ req' = [req EXCEPT ![r].pc = "done", ![r].codec = "vp9",
                                 ![r].fps = FPS_DEFAULT,
                                 ![r].resp = "InvalidInput"]
          /\ UNCHANGED thr
  /\ UNCHANGED <<app, load, sw, rn, pg, up, now, processing_jobs, job, fs, reaper, tm, app_stats>>

\* --------------------------------------------------------------- process_job
Job(t) == thr[t].job

\* job = processing_jobs[job_id]; job['status'] = 'processing' (and, in
\* app_new, job['updated_at']).  The lookup is outside the try block: a key
\* that is gone ends the thread with a KeyError.
pj_start(t) ==
  /\ thr[t].pc = "start"
  /\ IF Job(t) \in processing_jobs
     THEN /\ job' = [job EXCEPT ![Job(t)].status = "processing",
                                ![Job(t)].updated_at =
                                   IF app = "app_new" THEN now ELSE @]
          /\ thr' = [thr EXCEPT ![t].pc = "rename"]
     ELSE /\ thr' = [thr EXCEPT ![t].pc = "crashed"]
          /\ UNCHANGED job
  /\ UNCHANGED <<app, load, sw, rn, pg, up, now, processing_jobs, fs, req, reaper, tm, app_stats>>

\* where the pipeline goes after the rename loop
AfterRename(c) == IF c = "gif" THEN "gif1_run" ELSE "vid_run"

\* The rename loop.  fault: os.rename raises (any filesystem error).  app
\* renames without looking, so a missing directory raises too; app_new skips
\* every file that does not exist.
pj_rename(t, fault) ==
  /\ thr[t].pc = "rename"
  /\ LET raises == fault \/ (app = "app" /\ ~fs[Job(t)].dir)
     IN  /\ thr' = [thr EXCEPT ![t].pc = IF raises THEN "e_status"
                                          ELSE AfterRename(thr[t].codec)]
         /\ fs' = IF app = "app" /\ ~raises
                  THEN [fs EXCEPT ![Job(t)].ctime = now]
                  ELSE fs
  /\ UNCHANGED <<app, load, sw, rn, pg, up, now, processing_jobs, job, req, reaper, tm, app_stats>>

\* where a pipeline goes when an encoder invocation did not succeed: _process_gif
\* and _process_video of app_new return False, app raises into its except block
Unsuccessful == IF app = "app_new" THEN "finish" ELSE "e_status"

\* The encoder command lines, as far as files and frame rate go: the files
\* read with -i, in order, and the file written, all in the job directory.
\* palette_cmd:
PaletteCmd(t) == [fps |-> thr[t].fps, inputs |-> <<"frame_%04d.png">>,
                  output |-> "palette.png"]

\* f'output.{output_ext}'
OutputFile(c) == CASE OutputExt(c) = "webm" -> "output.webm"
                   [] OutputExt(c) = "gif" -> "output.gif"
                   [] OutputExt(c) = "mov" -> "output.mov"

\* gif_cmd, which reads palette_file as its second input, or the single
\* command of the other codecs
FinalCmd(t) ==
  [fps |-> thr[t].fps,
   inputs |-> IF thr[t].codec = "gif"
              THEN <<"frame_%04d.png", "palette.png">>
              ELSE <<"frame_%04d.png">>,
   output |-> OutputFile(thr[t].codec)]

\* First pass of the gif codec: subprocess.run(palette_cmd, ...) spawns the
\* palette encoder.  ok: the process could be spawned.
gif1_run(t, ok) ==
  /\ thr[t].pc = "gif1_run"
  /\ thr' = [thr EXCEPT ![t].r1 = IF ok THEN "running" ELSE "nospawn",
                        ![t].pc = IF ok THEN "gif1_wait" ELSE Unsuccessful,
                        ![t].ran = IF ok THEN Append(@, PaletteCmd(t)) ELSE @]
  /\ UNCHANGED <<app, load, sw, rn, pg, up, now, processing_jobs, job, fs, req, reaper, tm, app_stats>>

\* where the pipeline goes once palette generation has exited with code rc
AfterPalette(rc) ==
  IF rc = 0 THEN (IF app = "app_new" THEN "gif2_run" ELSE "vid_run")
  ELSE Unsuccessful

\* The palette encoder exits with code rc and subprocess.run returns
\* (app: check=True raises CalledProcessError on a non-zero code).
gif1_wait(t, rc) ==
  /\ thr[t].pc = "gif1_wait"
  /\ thr[t].r1 = "running"
  /\ thr' = [thr EXCEPT ![t].r1 = IF rc = 0 THEN "exit0" ELSE "exit1",
                        ![t].pc = AfterPalette(rc)]
  /\ UNCHANGED <<app, load, sw, rn, pg, up, now, processing_jobs, job, fs, req, reaper, tm, app_stats>>

\* An encoder that is running stops making progress towards its exit: from
\* here on it runs until someone kills it.
EncoderHangs(t) ==
  /\ \/ /\ thr[t].r1 = "running"
        /\ thr' = [thr EXCEPT ![t].r1 = "hung"]
     \/ /\ thr[t].r2 = "running"
        /\ thr' = [thr EXCEPT ![t].r2 = "hung"]
  /\ UNCHANGED <<app, load, sw, rn, pg, up, now, processing_jobs, job, fs, req, reaper, tm, app_stats>>

\* a pipeline that waits for its encoders without a timeout
NoDeadline == FALSE

\* whether the pipeline puts a deadline on its encoders: only app_new passes
\* timeout= to subprocess.run and to communicate
HasDeadline == app = "app_new"

\* The deadline of the palette encoder (MAX_PROCESSING_TIME_SECONDS // 2)
\* elapses: subprocess.run kills the child, waits for it and raises
\* TimeoutExpired, and _process_gif returns False.
gif1_timeout(t) ==
  /\ HasDeadline
  /\ thr[t].pc = "gif1_wait"
  /\ thr[t].r1 = "hung"
  /\ thr' = [thr EXCEPT ![t].r1 = "killed", ![t].pc = "finish"]
  /\ UNCHANGED <<app, load, sw, rn, pg, up, now, processing_jobs, job, fs, req, reaper, tm, app_stats>>

\* The final encoder is spawned: the second subprocess.run of _process_gif,
\* or Popen in _process_video and in app's process_job.
final_run(t, ok) ==
  /\ thr[t].pc \in {"gif2_run", "vid_run"}
  /\ thr' = [thr EXCEPT ![t].r2 = IF ok THEN "running" ELSE "nospawn",
                        ![t].pc = IF ~ok THEN Unsuccessful
                                  ELSE IF app = "app" THEN "vid_read"
                                  ELSE "final_wait",
                        ![t].ran = IF ok THEN Append(@, FinalCmd(t)) ELSE @]
  /\ UNCHANGED <<app, load, sw, rn, pg, up, now, processing_jobs, job, fs, req, reaper, tm, app_stats>>

\* what the final encoder of thread t leaves on disk: with wrote it has
\* created its output file, which needs the job directory to be there
Wrote(t, wrote) ==
  IF wrote /\ fs[Job(t)].dir
  THEN [fs EXCEPT ![Job(t)].out = @ \cup {OutputExt(thr[t].codec)},
                  ![Job(t)].ctime = IF app = "app" THEN now ELSE @]
  ELSE fs

\* os.path.exists(output_file) for the output file of thread t
OutputExists(t) == OutputExt(thr[t].codec) \in fs[Job(t)].out

\* app_new: the final encoder exits with code rc; communicate / run return
\* and success is returncode == 0.
final_wait(t, rc, wrote) ==
  /\ thr[t].pc = "final_wait"
  /\ thr[t].r2 = "running"
  /\ thr' = [thr EXCEPT ![t].r2 = IF rc = 0 THEN "exit0" ELSE "exit1",
                        ![t].success = (rc = 0),
                        ![t].pc = "finish"]
  /\ fs' = Wrote(t, wrote)
  /\ UNCHANGED <<app, load, sw, rn, pg, up, now, processing_jobs, job, req, reaper, tm, app_stats>>

\* app_new: the deadline of the final encoder (MAX_PROCESSING_TIME_SECONDS)
\* elapses; the child is killed and the invocation reports False.
final_timeout(t, wrote) ==
  /\ HasDeadline
  /\ thr[t].pc = "final_wait"
  /\ thr[t].r2 = "hung"
  /\ thr' = [thr EXCEPT ![t].r2 = "killed", ![t].success = FALSE,
                        ![t].pc = "finish"]
  /\ fs' = Wrote(t, wrote)
  /\ UNCHANGED <<app, load, sw, rn, pg, up, now, processing_jobs, job, req, reaper, tm, app_stats>>

\* app_new: the wait for an encoder raises an exception that is not
\* TimeoutExpired (communicate runs out of memory or fails on the pipe).
\* subprocess.run, which _process_gif uses for both passes, kills the child
\* before it lets the exception through; _process_video catches the exception
\* of communicate in its outer except and returns False, and the child runs
\* on.  What such a child still writes is not followed.
wait_raises(t) ==
  /\ app = "app_new"
  /\ \/ /\ thr[t].pc = "gif1_wait"
        /\ thr[t].r1 \in {"running", "hung"}
        /\ thr' = [thr EXCEPT ![t].r1 = "killed", ![t].pc = "finish"]
     \/ /\ thr[t].pc = "final_wait"
        /\ thr[t].r2 \in {"running", "hung"}
        /\ thr' = [thr EXCEPT ![t].r2 = IF thr[t].codec = "gif" THEN "killed"
                                        ELSE @,
                              ![t].success = FALSE,
                              ![t].pc = "finish"]
  /\ UNCHANGED <<app, load, sw, rn, pg, up, now, processing_jobs, job, fs, req, reaper, tm, app_stats>>

\* app_new: the encoder of _process_video prints a line with the frame
\* counter c while the thread waits for it.  communicate() collects the
\* output until the encoder is through; nothing reads it before, and what was
\* collected is dropped (stdout, _ = ...).
enc_prints(t, c) ==
  /\ app = "app_new"
  /\ thr[t].pc = "final_wait"
  /\ thr[t].codec # "gif"
  /\ thr[t].r2 \in {"running", "hung"}
  /\ c > thr[t].frame
  /\ thr' = [thr EXCEPT ![t].frame = c]
  /\ UNCHANGED <<app, load, sw, rn, pg, up, now, processing_jobs, job, fs, req, reaper, tm, app_stats>>

\* app: one line of the encoder's output is read.  c is its frame counter
\* (the encoder prints them in increasing order), or -1 for a line without a
\* usable frame= token, which is ignored.
vid_read(t, c) ==
  /\ thr[t].pc = "vid_read"
  /\ thr[t].r2 \in {"running", "hung"}
  /\ IF c >= 0
     THEN /\ c > thr[t].frame
          /\ thr' = [thr EXCEPT ![t].frame = c]
          /\ job' = [job EXCEPT ![Job(t)].progress =
                                   Progress(c, job[Job(t)].nfiles)]
     ELSE UNCHANGED <<thr, job>>
  /\ UNCHANGED <<app, load, sw, rn, pg, up, now, processing_jobs, fs, req, reaper, tm, app_stats>>

\* app: the encoder exits with code rc, the output loop ends and
\* process.wait() returns.
vid_eof(t, rc, wrote) ==
  /\ thr[t].pc = "vid_read"
  /\ thr[t].r2 = "running"
  /\ thr' = [thr EXCEPT ![t].r2 = IF rc = 0 THEN "exit0" ELSE "exit1",
                        ![t].success = (rc = 0),
                        ![t].pc = IF rc = 0 THEN "c_status" ELSE "f_status"]
  /\ fs' = Wrote(t, wrote)
  /\ UNCHANGED <<app, load, sw, rn, pg, up, now, processing_jobs, job, req, reaper, tm, app_stats>>

\* app_new: if success and os.path.exists(output_file)
pj_finish(t) ==
  /\ thr[t].pc = "finish"
  /\ thr' = [thr EXCEPT ![t].pc = IF thr[t].success /\ OutputExists(t)
                                  THEN "c_status" ELSE "f_status"]
  /\ UNCHANGED <<app, load, sw, rn, pg, up, now, processing_jobs, job, fs, req, reaper, tm, app_stats>>

\* job['status'] = 'completed'
c_status(t) ==
  /\ thr[t].pc = "c_status"
  /\ job' = [job EXCEPT ![Job(t)].status = "completed"]
  /\ thr' = [thr EXCEPT ![t].pc = "c_output"]
  /\ UNCHANGED <<app, load, sw, rn, pg, up, now, processing_jobs, fs, req, reaper, tm, app_stats>>

\* job['output'] = output_file
c_output(t) ==
  /\ thr[t].pc = "c_output"
  /\ job' = [job EXCEPT ![Job(t)].output = OutputExt(thr[t].codec)]
  /\ thr' = [thr EXCEPT ![t].pc = "c_size"]
  /\ UNCHANGED <<app, load, sw, rn, pg, up, now, processing_jobs, fs, req, reaper, tm, app_stats>>

\* job['output_size'] = os.path.getsize(output_file), which raises when the
\* file is not there; in app that is the end of the completed branch
c_size(t) ==
  /\ thr[t].pc = "c_size"
  /\ IF OutputExists(t)
     THEN /\ job' = [job EXCEPT ![Job(t)].output_size = TRUE]
          /\ thr' = [thr EXCEPT ![t].pc = IF app = "app_new" THEN "c_rest"
                                          ELSE "done"]
     ELSE /\ thr' = [thr EXCEPT ![t].pc = "e_status"]
          /\ UNCHANGED job
  /\ UNCHANGED <<app, load, sw, rn, pg, up, now, processing_jobs, fs, req, reaper, tm, app_stats>>

\* app_new: processing_time, updated_at, completed_jobs += 1, and the
\* finally block's active_jobs -= 1
c_rest(t) ==
  /\ thr[t].pc = "c_rest"
  /\ job' = [job EXCEPT ![Job(t)].processing_time = TRUE,
                        ![Job(t)].updated_at = now]
  /\ app_stats' = [app_stats EXCEPT !.completed_jobs = @ + 1,
                                    !.active_jobs = @ - 1]
  /\ thr' = [thr EXCEPT ![t].pc = "done"]
  /\ UNCHANGED <<app, load, sw, rn, pg, up, now, processing_jobs, fs, req, reaper, tm>>

\* the counters of the two failure branches of app_new, with the finally block
CountFailed == IF app = "app_new"
               THEN [app_stats EXCEPT !.failed_jobs = @ + 1,
                                      !.active_jobs = @ - 1]
               ELSE app_stats

\* else branch: job['status'] = 'failed'
f_status(t) ==
  /\ thr[t].pc = "f_status"
  /\ job' = [job EXCEPT ![Job(t)].status = "failed"]
  /\ thr' = [thr EXCEPT ![t].pc = "f_rest"]
  /\ UNCHANGED <<app, load, sw, rn, pg, up, now, processing_jobs, fs, req, reaper, tm, app_stats>>

\* else branch: job['error'] = 'FFmpeg processing failed' (no updated_at)
f_rest(t) ==
  /\ thr[t].pc = "f_rest"
  /\ job' = [job EXCEPT ![Job(t)].error = "ffmpeg"]
  /\ app_stats' = CountFailed
  /\ thr' = [thr EXCEPT ![t].pc = "done"]
  /\ UNCHANGED <<app, load, sw, rn, pg, up, now, processing_jobs, fs, req, reaper, tm>>

\* except Exception: job['status'] = 'failed'
e_status(t) ==
  /\ thr[t].pc = "e_status"
  /\ job' = [job EXCEPT ![Job(t)].status = "failed"]
  /\ thr' = [thr EXCEPT ![t].pc = "e_rest"]
  /\ UNCHANGED <<app, load, sw, rn, pg, up, now, processing_jobs, fs, req, reaper, tm, app_stats>>

\* except Exception: job['error'] = str(e) (and, in app_new, updated_at)
e_rest(t) ==
  /\ thr[t].pc = "e_rest"
  /\ job' = [job EXCEPT ![Job(t)].error = "exception",
                        ![Job(t)].updated_at =
                           IF app = "app_new" THEN now ELSE @]
  /\ app_stats' = CountFailed
  /\ thr' = [thr EXCEPT ![t].pc = "done"]
  /\ UNCHANGED <<app, load, sw, rn, pg, up, now, processing_jobs, fs, req, reaper, tm>>

\* one step of pipeline thread t
Pipeline(t) ==
  \/ pj_start(t)
  \/ \E fault \in BOOLEAN : pj_rename(t, fault)
  \/ \E ok \in BOOLEAN : gif1_run(t, ok)
  \/ \E rc \in {0, 1} : gif1_wait(t, rc)
  \/ gif1_timeout(t)
  \/ \E ok \in BOOLEAN : final_run(t, ok)
  \/ \E rc \in {0, 1}, wrote \in BOOLEAN : final_wait(t, rc, wrote)
  \/ \E wrote \in BOOLEAN : final_timeout(t, wrote)
  \/ wait_raises(t)
  \/ \E c \in -1..MaxFrame : vid_read(t, c)
  \/ \E rc \in {0, 1}, wrote \in BOOLEAN : vid_eof(t, rc, wrote)
  \/ pj_finish(t)
  \/ c_status(t)
  \/ c_output(t)
  \/ c_size(t)
  \/ c_rest(t)
  \/ f_status(t)
  \/ f_rest(t)
  \/ e_status(t)
  \/ e_rest(t)

\* ------------------------------------------------------------ download_video
\* GET /download/<job_id>: if job_id not in processing_jobs: 404
download_video(k, j) ==
  /\ tm[k].pc = "unused"
  /\ (k > 1 => tm[k - 1].pc # "unused")
  /\ k <= load.timers
  /\ tm' = [tm EXCEPT ![k] =
       IF j \notin processing_jobs
       THEN [pc |-> "rejected", job |-> j, resp |-> "NotFound"]
       ELSE [pc |-> "known", job |-> j, resp |-> "none"]]
  /\ UNCHANGED <<app, load, sw, rn, pg, up, now, processing_jobs, job, fs, req, thr, reaper, app_stats>>

\* send_file(output_file, ...) of a file that is not there raises, and the
\* request is answered 500
SendFile(j) == IF job[j].output \in fs[j].out THEN "Served" ELSE "ServerError"

\* The rest of the handler.  job = processing_jobs[job_id] raises KeyError
\* when the key has been deleted since the test (500); a job that is not
\* completed or has no output is answered 400 'Video not ready'; app_new
\* answers 404 when the output file does not exist; then the Timer that will
\* call cleanup_job is started and the file is sent.
dv_serve(k) ==
  /\ tm[k].pc = "known"
  /\ LET j == tm[k].job
     IN  tm' = [tm EXCEPT ![k] =
           IF j \notin processing_jobs
           THEN [pc |-> "rejected", job |-> j, resp |-> "ServerError"]
           ELSE IF job[j].status # "completed" \/ job[j].output = "none"
           THEN [pc |-> "rejected", job |-> j, resp |-> "NotReady"]
           ELSE IF app = "app_new" /\ job[j].output \notin fs[j].out
           THEN [pc |-> "rejected", job |-> j, resp |-> "NotFound"]
           ELSE [pc |-> "pending", job |-> j, resp |-> SendFile(j)]]
  /\ UNCHANGED <<app, load, sw, rn, pg, up, now, processing_jobs, job, fs, req, thr, reaper, app_stats>>

\* -------------------------------------------------------------- cleanup_job
\* cleanup_job runs in a Timer thread or inside the Reaper's sweep; its three
\* steps are the same for both.

\* if job_id in processing_jobs: job = processing_jobs[job_id]
cleanup_known(j) == j \in processing_jobs

\* an rmtree that returns without having removed anything
KeepsDir(j) == fs

\* shutil.rmtree(job['dir']) when the directory exists
Rmtree(j) == [fs EXCEPT ![j].dir = FALSE, ![j].out = {}]

\* shutil.rmtree(job['dir']) raises and the directory stays
RmtreeRaises(j) == [fs EXCEPT ![j].rmfail = TRUE]

\* whether a failing rmtree is caught inside cleanup_job (app_new logs it)
RmtreeCaught == app = "app_new"

\* the Timer fires and cleanup_job tests the key
tm_check(k) ==
  /\ tm[k].pc = "pending"
  /\ tm' = [tm EXCEPT ![k].pc = IF cleanup_known(tm[k].job) THEN "rmtree"
                                ELSE "done"]
  /\ UNCHANGED <<app, load, sw, rn, pg, up, now, processing_jobs, job, fs, req, thr, reaper, app_stats>>

\* the directory is removed if it exists; fail: rmtree raises
tm_rmtree(k, fail) ==
  /\ tm[k].pc = "rmtree"
  /\ IF ~fs[tm[k].job].dir
     THEN /\ ~fail
          /\ tm' = [tm EXCEPT ![k].pc = "del"]
          /\ UNCHANGED fs
     ELSE IF fail
     THEN /\ tm' = [tm EXCEPT ![k].pc = IF RmtreeCaught THEN "del" ELSE "oserror"]
          /\ fs' = RmtreeRaises(tm[k].job)
     ELSE /\ tm' = [tm EXCEPT ![k].pc = "del"]
          /\ fs' = Rmtree(tm[k].job)
  /\ UNCHANGED <<app, load, sw, rn, pg, up, now, processing_jobs, job, req, thr, reaper, app_stats>>

\* del processing_jobs[job_id]: a KeyError when the key is gone, which nothing
\* in a Timer thread catches
tm_del(k) ==
  /\ tm[k].pc = "del"
  /\ tm' = [tm EXCEPT ![k].pc = IF tm[k].job \in processing_jobs THEN "done"
                                ELSE "keyerror"]
  /\ processing_jobs' = processing_jobs \ {tm[k].job}
  /\ UNCHANGED <<app, load, sw, rn, pg, up, now, job, fs, req, thr, reaper, app_stats>>

\* --------------------------------------------------------- cleanup_old_jobs
\* the age test of the sweep: app_new compares created_at, app the ctime of
\* the job directory (and skips a job whose directory is missing)
Stale(j) == IF app = "app_new"
            THEN now - job[j].created_at > TTL
            ELSE fs[j].dir /\ now - fs[j].ctime > TTL

\* the jobs that are older than the TTL, by the time they were registered
Expired == {j \in processing_jobs : now - job[j].created_at > TTL}

\* time.sleep(3600) has returned: jobs_to_remove is collected
rp_scan ==
  /\ reaper.pc = "due"
  /\ LET todo == {j \in processing_jobs : Stale(j)}
     IN  reaper' = IF todo = {}
                   THEN [NoReaper EXCEPT !.expired = Expired,
                                         !.ended = "completed"]
                   ELSE [pc |-> "check", todo |-> todo, cur |-> "j1",
                         expired |-> Expired, ended |-> "none"]
  /\ UNCHANGED <<app, load, sw, rn, pg, up, now, processing_jobs, job, fs, req, thr, tm, app_stats>>

\* jobs_to_remove lists the jobs in the order of the dict, the order in which
\* they were registered
FirstOf(S) == IF "j1" \in S THEN "j1" ELSE "j2"

\* the reaper after cleanup_job has returned for job j: the next job of
\* jobs_to_remove, or the next sleep when the sweep is through
RpNext(j) == LET rest == reaper.todo \ {j}
             IN  IF rest = {}
                 THEN [NoReaper EXCEPT !.expired = reaper.expired,
                                       !.ended = "completed"]
                 ELSE [reaper EXCEPT !.todo = rest, !.pc = "check"]

\* the reaper after exception e has left the sweep: app_new logs it and goes
\* back to sleep, app has no handler and the thread ends
RpRaised(e) == [NoReaper EXCEPT !.pc = IF app = "app_new" THEN "sleep"
                                       ELSE "dead",
                                !.expired = reaper.expired,
                                !.ended = e]

\* cleanup_job(job_id) for the next job of jobs_to_remove: the key test
rp_check ==
  /\ reaper.pc = "check"
  /\ LET j == FirstOf(reaper.todo)
     IN  reaper' = IF cleanup_known(j)
                   THEN [reaper EXCEPT !.cur = j, !.pc = "rmtree"]
                   ELSE RpNext(j)
  /\ UNCHANGED <<app, load, sw, rn, pg, up, now, processing_jobs, job, fs, req, thr, tm, app_stats>>

\* the directory is removed if it exists; fail: rmtree raises
rp_rmtree(fail) ==
  /\ reaper.pc = "rmtree"
  /\ IF ~fs[reaper.cur].dir
     THEN /\ ~fail
          /\ reaper' = [reaper EXCEPT !.pc = "del"]
          /\ UNCHANGED fs
     ELSE IF fail
     THEN /\ reaper' = IF RmtreeCaught THEN [reaper EXCEPT !.pc = "del"]
                       ELSE RpRaised("oserror")
          /\ fs' = RmtreeRaises(reaper.cur)
     ELSE /\ reaper' = [reaper EXCEPT !.pc = "del"]
          /\ fs' = Rmtree(reaper.cur)
  /\ UNCHANGED <<app, load, sw, rn, pg, up, now, processing_jobs, job, req, thr, tm, app_stats>>

\* del processing_jobs[job_id]; a KeyError leaves the sweep
rp_del ==
  /\ reaper.pc = "del"
  /\ reaper' = IF reaper.cur \in processing_jobs THEN RpNext(reaper.cur)
               ELSE RpRaised("keyerror")
  /\ processing_jobs' = processing_jobs \ {reaper.cur}
  /\ UNCHANGED <<app, load, sw, rn, pg, up, now, job, fs, req, thr, tm, app_stats>>

Next ==
  \/ Tick
  \/ \E u \in Uploads, j \in JobIds, n \in 0..(MAX_FRAME_COUNT + 1) :
        upload_files(u, j, n)
  \/ \E r \in Requests, j \in JobIds, c \in ReqCodecs, f \in FpsSent :
        pv_check(r, j, c, f)
  \/ \E r \in Requests : pv_lookup(r)
  \/ \E r \in Requests : pv_spawn(r)
  \/ \E t \in Requests : Pipeline(t)
  \/ \E t \in Requests : EncoderHangs(t)
  \/ \E k \in Timers, j \in JobIds : download_video(k, j)
  \/ \E k \in Timers : dv_serve(k)
  \/ \E k \in Timers : tm_check(k)
  \/ \E k \in Timers, fail \in BOOLEAN : tm_rmtree(k, fail)
  \/ \E k \in Timers : tm_del(k)
  \/ rp_scan
  \/ rp_check
  \/ \E fail \in BOOLEAN : rp_rmtree(fail)
  \/ rp_del

Spec == Init /\ [][Next]_vars

\* The scheduler runs every pipeline thread that can take a step.  Nothing is
\* assumed of the clients, the clock, the Reaper, the Timers or the encoders:
\* an encoder that has not hung exits only because its thread collects it.
FairSpec == Spec /\ \A t \in Requests : WF_vars(Pipeline(t))

\* ---------------------------------------------------------- the rename loop
\* The loop of process_job that renames the frames, followed file by file on
\* one job directory that no other thread touches.

\* file names a client may upload, in the order sorted() puts them
NameOrder == <<"a.png", "frame_0000.png", "frame_0001.png", "frame_0002.png",
               "frame_0003.png", "z.png">>
FileNames == {NameOrder[n] : n \in 1..Len(NameOrder)}
Rank(f) == CHOOSE n \in 1..Len(NameOrder) : NameOrder[n] = f

\* f'frame_{i:04d}.png'
FrameName(i) == CASE i = 0 -> "frame_0000.png"
                  [] i = 1 -> "frame_0001.png"
                  [] i = 2 -> "frame_0002.png"
                  [] i = 3 -> "frame_0003.png"

\* sorted(job['files'])
RECURSIVE Sorted(_)
Sorted(S) ==
  IF S = {} THEN <<>>
  ELSE LET m == CHOOSE f \in S : \A g \in S : Rank(f) <= Rank(g)
       IN  <<m>> \o Sorted(S \ {m})

\* the list s of names when those of D were uploaded twice: secure_filename
\* gave two parts of the upload the same name, the second was saved over the
\* first and the name was appended both times
RECURSIVE Twice(_, _)
Twice(s, D) ==
  IF s = <<>> THEN <<>>
  ELSE (IF Head(s) \in D THEN <<Head(s), Head(s)>> ELSE <<Head(s)>>)
         \o Twice(Tail(s), D)

\* os.rename(old_path, new_path): the file takes the new name and replaces
\* whatever file had it
Rename(d, old, new) ==
  IF old = new THEN d ELSE [d EXCEPT ![new] = d[old], ![old] = "none"]

\* no client sends anything
NoLoad == [jobs |-> 0, requests |-> 0, timers |-> 0, ticks |-> 0,
           frames |-> {}, fps |-> {}]

\* a job with the registered names S, those of D registered twice, of which
\* those of L have no file
RenameInit ==
  /\ app \in Apps
  /\ load = NoLoad
  /\ sw = NoSweep
  /\ pg = NoProgress
  /\ up = [u \in Uploads |-> NoUp]
  /\ now = 0
  /\ processing_jobs = {}
  /\ job = [j \in JobIds |-> NoJob]
  /\ fs = [j \in JobIds |-> NoDir]
  /\ req = [r \in Requests |-> NoReq]
  /\ thr = [r \in Requests |-> NoThr]
  /\ reaper = NoReaper
  /\ tm = [k \in Timers |-> NoTimer]
  /\ app_stats = [total_jobs |-> 0, active_jobs |-> 0, completed_jobs |-> 0,
                  failed_jobs |-> 0]
  /\ \E S \in SUBSET FileNames, L \in SUBSET FileNames, D \in SUBSET FileNames :
       /\ S # {}
       /\ Cardinality(S) + Cardinality(D) <= MaxNames
       /\ L \subseteq S
       /\ D \subseteq S
       /\ rn = [pc |-> "loop", files |-> Twice(Sorted(S), D), i |-> 0, lost |-> L,
                dir |-> [f \in FileNames |->
                           IF f \in S \ L THEN f ELSE "none"]]

\* One turn of the loop: files[i] is renamed to frame_<i>.png.  app_new skips
\* a file that does not exist; in app os.rename raises and the loop ends.
rename_file ==
  /\ rn.pc = "loop"
  /\ rn.i < Len(rn.files)
  /\ LET old == rn.files[rn.i + 1]
         new == FrameName(rn.i)
     IN  rn' = IF rn.dir[old] # "none"
               THEN [rn EXCEPT !.dir = Rename(rn.dir, old, new), !.i = @ + 1]
               ELSE IF app = "app_new"
               THEN [rn EXCEPT !.i = @ + 1]
               ELSE [rn EXCEPT !.pc = "raised"]
  /\ UNCHANGED <<app, load, sw, pg, up, now, processing_jobs, job, fs, req, thr, reaper, tm, app_stats>>

\* the loop is through
rename_end ==
  /\ rn.pc = "loop"
  /\ rn.i = Len(rn.files)
  /\ rn' = [rn EXCEPT !.pc = "done"]
  /\ UNCHANGED <<app, load, sw, pg, up, now, processing_jobs, job, fs, req, thr, reaper, tm, app_stats>>

RenameNext == rename_file \/ rename_end

RenameSpec == RenameInit /\ [][RenameNext]_vars

\* ------------------------------------- app: the loop over the encoder's output
\* for line in process.stdout, followed on its own, item by item of a line.
\* A line is a sequence of items: the text frame=, a blank, a minus sign, a
\* digit, another character, or a byte that is no text in the encoding of
\* the pipe.
Digits == {"0", "2", "9"}
BadByte == "\\xff"
Chars == {"frame=", " ", "-", "x", BadByte} \cup Digits
Lines == UNION {[1..k -> Chars] : k \in 0..MaxLine}

\* The pipe is opened with universal_newlines=True: the loop statement decodes
\* what the encoder wrote, strictly, and raises UnicodeDecodeError on a byte
\* that is no text.
Decodes(l) == \A i \in 1..Len(l) : l[i] # BadByte

\* 'frame=' in line
HasFrame(l) == \E i \in 1..Len(l) : l[i] = "frame="

\* where the first item ch of l stands, or past its end if there is none
Find(l, ch) ==
  IF \E i \in 1..Len(l) : l[i] = ch
  THEN CHOOSE i \in 1..Len(l) : l[i] = ch /\ \A k \in 1..(i - 1) : l[k] # ch
  ELSE Len(l) + 1

\* line.split('frame=')[1]: what stands between the first frame= and the
\* next one, or the end of the line
AfterFrame(l) ==
  LET rest == SubSeq(l, Find(l, "frame=") + 1, Len(l))
  IN  SubSeq(rest, 1, Find(rest, "frame=") - 1)

\* s.split()[0]: the first run of items that are not blanks; there is none,
\* and the index raises IndexError, when s is empty or all blanks
NoWord(s) == \A i \in 1..Len(s) : s[i] = " "
FirstWord(s) ==
  LET a == CHOOSE i \in 1..Len(s) : s[i] # " " /\ \A k \in 1..(i - 1) : s[k] = " "
      tail == SubSeq(s, a, Len(s))
  IN  SubSeq(tail, 1, Find(tail, " ") - 1)

\* int(frame_match): an optional sign and at least one digit, ValueError
\* otherwise
Unsigned(w) == IF w # <<>> /\ w[1] = "-" THEN Tail(w) ELSE w
IsInt(w) == /\ Unsigned(w) # <<>>
            /\ \A i \in 1..Len(Unsigned(w)) : Unsigned(w)[i] \in Digits
DigitVal(ch) == IF ch = "0" THEN 0 ELSE IF ch = "2" THEN 2 ELSE 9
RECURSIVE Decimal(_)
Decimal(w) ==
  IF w = <<>> THEN 0
  ELSE 10 * Decimal(SubSeq(w, 1, Len(w) - 1)) + DigitVal(w[Len(w)])
IntOf(w) == IF w[1] = "-" THEN 0 - Decimal(Tail(w)) ELSE Decimal(w)

\* how the body of the loop goes on the line l
Turn(l) ==
  IF ~HasFrame(l) THEN "no token"
  ELSE IF NoWord(AfterFrame(l)) THEN "IndexError"
  ELSE IF ~IsInt(FirstWord(AfterFrame(l))) THEN "ValueError"
  ELSE "set"

\* except: pass catches whatever the try block raises
Caught(e) == TRUE

\* the loop starts on a job of n frames, in processing
ProgressInit ==
  /\ app = "app"
  /\ load = NoLoad
  /\ sw = NoSweep
  /\ rn = NoRename
  /\ up = [u \in Uploads |-> NoUp]
  /\ now = 0
  /\ processing_jobs = {}
  /\ job = [j \in JobIds |-> NoJob]
  /\ fs = [j \in JobIds |-> NoDir]
  /\ req = [r \in Requests |-> NoReq]
  /\ thr = [r \in Requests |-> NoThr]
  /\ reaper = NoReaper
  /\ tm = [k \in Timers |-> NoTimer]
  /\ app_stats = [total_jobs |-> 0, active_jobs |-> 0, completed_jobs |-> 0,
                  failed_jobs |-> 0]
  /\ \E n \in 1..MaxTotal :
       pg = [NoProgress EXCEPT !.pc = "loop", !.n = n, !.status = "processing"]

\* One turn of the loop on the line l.  An exception raised outside the try
\* block, or one that the inner except did not catch, ends the loop in
\* process_job's except Exception as e; the encoder is not waited for.
read_line(l) ==
  /\ pg.pc = "loop"
  /\ pg.read < MaxLines
  /\ LET o == Turn(l)
         read == [pg EXCEPT !.read = @ + 1, !.last = o]
     IN  pg' = IF ~Decodes(l)
               THEN [read EXCEPT !.pc = "raised", !.status = "failed",
                                 !.error = "UnicodeDecodeError"]
               ELSE IF o = "no token" THEN read
               ELSE IF o = "set"
               THEN LET c == IntOf(FirstWord(AfterFrame(l)))
                    IN  [read EXCEPT !.current_frame = c,
                                     !.progress = Progress(c, pg.n)]
               ELSE IF Caught(o) THEN read
               ELSE [read EXCEPT !.pc = "raised", !.status = "failed", !.error = o]
  /\ UNCHANGED <<app, load, sw, rn, up, now, processing_jobs, job, fs, req, thr, reaper, tm, app_stats>>

\* the encoder closes its output: the loop ends and process.wait() follows
read_eof ==
  /\ pg.pc = "loop"
  /\ pg' = [pg EXCEPT !.pc = "wait"]
  /\ UNCHANGED <<app, load, sw, rn, up, now, processing_jobs, job, fs, req, thr, reaper, tm, app_stats>>

ProgressNext == (\E l \in Lines : read_line(l)) \/ read_eof

ProgressSpec == ProgressInit /\ [][ProgressNext]_vars

\* ------------------------------------ the sweep of the Reaper, item by item
\* cleanup_old_jobs followed through its two loops, while a client registers
\* a job and a Timer thread runs cleanup_job.  What the threads do to the
\* directories is left out.
InsertKeys == <<"k3", "k4">>

\* the keys of the dict
Live(e) == {e[i] : i \in 1..Len(e)} \ {"dummy"}

\* del processing_jobs[k]
Delete(e, k) == [i \in 1..Len(e) |-> IF e[i] = k THEN "dummy" ELSE e[i]]

\* the first slot after pos that holds a key, 0 if there is none
NextSlot(e, pos) ==
  IF \E i \in (pos + 1)..Len(e) : e[i] # "dummy"
  THEN CHOOSE i \in (pos + 1)..Len(e) :
         e[i] # "dummy" /\ \A k \in (pos + 1)..(i - 1) : e[k] = "dummy"
  ELSE 0

\* the Reaper after exception e has left the sweep: app_new logs it and goes
\* back to sleep, app has no handler and the thread ends
SwRaised(e) == [sw EXCEPT !.pc = IF app = "app_new" THEN "sleep" ELSE "dead",
                          !.todo = <<>>, !.ended = e]

\* the Reaper sleeps; the dict holds some jobs, those of O past the TTL
SweepInit ==
  /\ app \in Apps
  /\ load = NoLoad
  /\ rn = NoRename
  /\ pg = NoProgress
  /\ up = [u \in Uploads |-> NoUp]
  /\ now = 0
  /\ processing_jobs = {}
  /\ job = [j \in JobIds |-> NoJob]
  /\ fs = [j \in JobIds |-> NoDir]
  /\ req = [r \in Requests |-> NoReq]
  /\ thr = [r \in Requests |-> NoThr]
  /\ reaper = NoReaper
  /\ tm = [k \in Timers |-> NoTimer]
  /\ app_stats = [total_jobs |-> 0, active_jobs |-> 0, completed_jobs |-> 0,
                  failed_jobs |-> 0]
  /\ \E e \in {<<>>, <<"k1">>, <<"k1", "k2">>}, O \in SUBSET {"k1", "k2"} :
       /\ O \subseteq Live(e)
       /\ sw = [NoSweep EXCEPT !.pc = "sleep", !.entries = e, !.old = O]

\* time.sleep(3600) returns and the for statement makes the iterator of
\* processing_jobs.items()
sweep_start ==
  /\ sw.pc = "sleep"
  /\ sw.sweeps < MaxSweeps
  /\ sw' = [sw EXCEPT !.pc = "scan", !.pos = 0,
                      !.len0 = Cardinality(Live(sw.entries)),
                      !.left = Cardinality(Live(sw.entries)),
                      !.todo = <<>>, !.expired = sw.old \cap Live(sw.entries),
                      !.ended = "none", !.sweeps = @ + 1]
  /\ UNCHANGED <<app, load, rn, pg, up, now, processing_jobs, job, fs, req, thr, reaper, tm, app_stats>>

\* One turn of the first loop.  The iterator raises RuntimeError when the
\* dict has another size than when the iterator was made, or when it finds
\* another item after it has given as many as the dict had; the loop ends
\* when no slot is left.  The body appends the job if it is past the TTL.
scan_next ==
  /\ sw.pc = "scan"
  /\ LET i == NextSlot(sw.entries, sw.pos)
     IN  sw' = IF Cardinality(Live(sw.entries)) # sw.len0
               THEN SwRaised("RuntimeError")
               ELSE IF i = 0 THEN [sw EXCEPT !.pc = "remove"]
               ELSE IF sw.left = 0 THEN SwRaised("RuntimeError")
               ELSE [sw EXCEPT !.pos = i, !.left = @ - 1,
                               !.todo = IF sw.entries[i] \in sw.old
                                        THEN Append(@, sw.entries[i]) ELSE @]
  /\ UNCHANGED <<app, load, rn, pg, up, now, processing_jobs, job, fs, req, thr, reaper, tm, app_stats>>

\* One turn of the second loop, up to the key test of cleanup_job; when
\* jobs_to_remove is through, the sweep has completed.
remove_check ==
  /\ sw.pc = "remove"
  /\ sw' = IF sw.todo = <<>>
           THEN [sw EXCEPT !.pc = "sleep", !.ended = "completed"]
           ELSE IF Head(sw.todo) \in Live(sw.entries)
           THEN [sw EXCEPT !.pc = "del", !.cur = Head(sw.todo)]
           ELSE [sw EXCEPT !.todo = Tail(@)]
  /\ UNCHANGED <<app, load, rn, pg, up, now, processing_jobs, job, fs, req, thr, reaper, tm, app_stats>>

\* del processing_jobs[job_id] in the Reaper: a KeyError leaves the sweep
remove_del ==
  /\ sw.pc = "del"
  /\ sw' = IF sw.cur \in Live(sw.entries)
           THEN [sw EXCEPT !.pc = "remove", !.entries = Delete(@, sw.cur),
                           !.todo = Tail(@)]
           ELSE SwRaised("KeyError")
  /\ UNCHANGED <<app, load, rn, pg, up, now, processing_jobs, job, fs, req, thr, reaper, tm, app_stats>>

\* upload_files: processing_jobs[job_id] = {...} with a new key, for a job
\* that is not past the TTL
register ==
  /\ sw.pc # "idle"
  /\ sw.inserts < MaxInserts
  /\ sw.inserts < Len(InsertKeys)
  /\ sw' = [sw EXCEPT !.entries = Append(@, InsertKeys[sw.inserts + 1]),
                      !.inserts = @ + 1]
  /\ UNCHANGED <<app, load, rn, pg, up, now, processing_jobs, job, fs, req, thr, reaper, tm, app_stats>>

\* a Timer thread runs cleanup_job(k) up to its key test, which finds k
timer_check(k) ==
  /\ sw.pc # "idle"
  /\ sw.timer = "idle"
  /\ k \in Live(sw.entries)
  /\ sw' = [sw EXCEPT !.timer = "del", !.tkey = k]
  /\ UNCHANGED <<app, load, rn, pg, up, now, processing_jobs, job, fs, req, thr, reaper, tm, app_stats>>

\* del processing_jobs[job_id] in the Timer thread
timer_del ==
  /\ sw.timer = "del"
  /\ sw' = IF sw.tkey \in Live(sw.entries)
           THEN [sw EXCEPT !.timer = "done", !.entries = Delete(@, sw.tkey)]
           ELSE [sw EXCEPT !.timer = "keyerror"]
  /\ UNCHANGED <<app, load, rn, pg, up, now, processing_jobs, job, fs, req, thr, reaper, tm, app_stats>>

SweepNext ==
  \/ sweep_start
  \/ scan_next
  \/ remove_check
  \/ remove_del
  \/ register
  \/ \E k \in {"k1", "k2"} \cup {InsertKeys[n] : n \in 1..Len(InsertKeys)} :
        timer_check(k)
  \/ timer_del

SweepSpec == SweepInit /\ [][SweepNext]_vars

\* Every Timer thread that has been started runs: the Timer fires and
\* cleanup_job goes through its steps.
Cleanup(k) == tm_check(k) \/ (\E fail \in BOOLEAN : tm_rmtree(k, fail)) \/ tm_del(k)

FairCleanup == Spec /\ \A k \in Timers : WF_vars(Cleanup(k))

\* ------------------------------------------------- two jobs, each started once
\* Two clients that never meet: each registers one job of one frame and sends
\* one StartJob for it.  Nothing is downloaded and the server is not up long
\* enough for a sweep, so that each job has one pipeline and keeps its record.
PairLoad == [jobs |-> 2, requests |-> 2, timers |-> 0, ticks |-> 0,
             frames |-> {1}, fps |-> {FPS_DEFAULT}]

PairInit ==
  /\ app \in Apps
  /\ load = PairLoad
  /\ sw = NoSweep
  /\ rn = NoRename
  /\ pg = NoProgress
  /\ up = [u \in Uploads |-> NoUp]
  /\ now = 0
  /\ processing_jobs = {}
  /\ job = [j \in JobIds |-> NoJob]
  /\ fs = [j \in JobIds |-> NoDir]
  /\ req = [r \in Requests |-> NoReq]
  /\ thr = [r \in Requests |-> NoThr]
  /\ reaper = NoReaper
  /\ tm = [k \in Timers |-> NoTimer]
  /\ app_stats = [total_jobs |-> 0, active_jobs |-> 0, completed_jobs |-> 0,
                  failed_jobs |-> 0]

\* the job request r is for: the first client's job or the second's
TargetOf(r) == IF r = 1 THEN "j1" ELSE "j2"

PairNext ==
  \/ \E u \in Uploads, j \in JobIds, n \in PairLoad.frames :
        upload_files(u, j, n)
  \/ \E r \in Requests, c \in ReqCodecs :
        pv_check(r, TargetOf(r), c, FPS_DEFAULT)
  \/ \E r \in Requests : pv_lookup(r)
  \/ \E r \in Requests : pv_spawn(r)
  \/ \E t \in Requests : Pipeline(t)
  \/ \E t \in Requests : EncoderHangs(t)
  \/ \E t \in Requests, c \in 1..MaxFrame : enc_prints(t, c)

PairSpec == PairInit /\ [][PairNext]_vars

\* ---------------------------------------------------------------- get_status
\* What GET /status/<job_id> answers in the current state: 404 for an id that
\* is not in processing_jobs, otherwise status and progress, with output_size
\* (and processing_time in app_new) for a completed job and error for a
\* failed one; job.get(key, default) answers the default for a key that has
\* not been written.
get_status(j) ==
  IF j \notin processing_jobs THEN [code |-> "NotFound"]
  ELSE IF job[j].status = "completed"
  THEN [code |-> "Ok", status |-> job[j].status, progress |-> job[j].progress,
        output_size |-> job[j].output_size,
        processing_time |-> job[j].processing_time]
  ELSE IF job[j].status = "failed"
  THEN [code |-> "Ok", status |-> job[j].status, progress |-> job[j].progress,
        error |-> job[j].error]
  ELSE [code |-> "Ok", status |-> job[j].status, progress |-> job[j].progress]

\* ------------------------------------------------------------------ claims
Terminal == {"completed", "failed"}

\* the pipeline threads that were started for job j
ThreadsOf(j) == {t \in Requests : thr[t].pc # "none" /\ thr[t].job = j}

\* C1: of the StartJob requests on one job at most one is accepted, and so at
\* most one process_job thread ever exists for the job.
C1_AtMostOneStart ==
  \A j \in JobIds :
    /\ Cardinality({r \in Requests : req[r].job = j /\ req[r].resp = "Accepted"}) <= 1
    /\ Cardinality(ThreadsOf(j)) <= 1

\* the status changes that follow uploaded, processing, completed | failed
StatusStep(a, b) ==
  \/ a = b
  \/ a = "none" /\ b = "uploaded"
  \/ a = "uploaded" /\ b = "processing"
  \/ a = "processing" /\ b \in Terminal

\* C2: every change of a job's status is one step along uploaded, processing,
\* completed | failed: none goes back, none leaves a terminal status, none
\* skips processing.
C2_StatusOrder ==
  [][\A j \in JobIds : StatusStep(job[j].status, job'[j].status)]_vars

\* C3: once a pipeline thread has been started for a job, the job's record in
\* the Job Store eventually has status completed or failed (unless the record
\* has been deleted from the store).
C3_StartedEndsTerminal ==
  \A t \in Requests :
    (thr[t].pc = "start") ~>
       (job[Job(t)].status \in Terminal \/ Job(t) \notin processing_jobs)

\* an encoder of thread t has run past its deadline
PastDeadline(t) == thr[t].r1 = "hung" \/ thr[t].r2 = "hung"

\* thread t has killed the encoder that ran past its deadline
Killed(t) == thr[t].r1 = "killed" \/ thr[t].r2 = "killed"

\* C4: in app_new, an encoder that runs past its deadline is killed and the
\* job's status becomes failed.
C4_DeadlineKillsAndFails ==
  \A t \in Requests :
    (app = "app_new" /\ PastDeadline(t)) ~>
       (Killed(t) /\ ~PastDeadline(t) /\ job[Job(t)].status = "failed")

C4_Witness ==
  \E t \in Requests :
    /\ app = "app_new"
    /\ thr[t].codec = "gif"
    /\ Killed(t)
    /\ thr[t].pc = "done"
    /\ job[Job(t)].status = "failed"

\* palette generation of thread t has exited non-zero or was killed at its
\* deadline
PaletteFailed(t) == thr[t].codec = "gif" /\ thr[t].r1 \in {"exit1", "killed"}

\* C5: a gif pipeline starts its second encoder only after its palette
\* encoder has exited with code 0; and when palette generation of a job has
\* failed, no second gif invocation is started for the job, the job's
\* output.gif is never created and, once the pipeline is through, the job is
\* failed.
C5_PaletteGatesSecondPass ==
  \A t \in Requests :
    /\ (thr[t].codec = "gif" /\ thr[t].r2 # "none" => thr[t].r1 = "exit0")
    /\ (PaletteFailed(t) =>
          /\ \A u \in ThreadsOf(Job(t)) : thr[u].codec = "gif" => thr[u].r2 = "none"
          /\ "gif" \notin fs[Job(t)].out
          /\ (thr[t].pc = "done" => job[Job(t)].status = "failed"))

\* C6: when a sweep of the Reaper has completed, every job that was older
\* than the TTL (counted from its registration) when the sweep began is out
\* of the Job Store.  This is the Job Store half of the claim, which leaves
\* aside what a failing rmtree does to the directory.
C6_SweepRemovesExpired ==
  reaper.ended = "completed" =>
    \A j \in reaper.expired : j \notin processing_jobs

\* C7: no call of cleanup_job, from a Timer or from the Reaper, fails because
\* the job is no longer in the Job Store.
C7_CleanupNeverKeyError ==
  /\ \A k \in Timers : tm[k].pc # "keyerror"
  /\ reaper.ended # "keyerror"

\* C8: no write to a job's progress lowers it.
C8_ProgressMonotonic ==
  [][\A j \in JobIds : job'[j].progress >= job[j].progress]_vars

\* C9: a StartJob whose id is not in the Job Store when the handler looks it up
\* is answered NotFound, one that finds the job in a status other than
\* uploaded is answered InvalidState, and a request answered with either has
\* started no pipeline thread and has changed neither the Job Store nor the
\* disk.
C9_RejectedStartChangesNothing ==
  [][\A r \in Requests :
       (req[r].pc \in {"free", "known"} /\ req'[r].pc \notin {"free", "known"}) =>
          LET j == req'[r].job
          IN  /\ j \notin processing_jobs => req'[r].resp = "NotFound"
              /\ (j \in processing_jobs /\ job[j].status # "uploaded")
                    => req'[r].resp = "InvalidState"
              /\ req'[r].resp \in {"NotFound", "InvalidState"} =>
                    /\ thr'[r].pc = "none"
                    /\ UNCHANGED <<processing_jobs, job, fs, thr, app_stats>>]_vars

\* C10: no pipeline thread is started, and so no encoder spawned, for a codec
\* outside vp9, vp8, gif, prores, qtrle; the request is answered InvalidInput.
C10_UnsupportedCodecRejected ==
  \A t \in Requests : thr[t].pc # "none" => thr[t].codec \in Codecs
\* C11: a StartJob on an uploaded job with a supported codec is accepted
\* whatever integer frame rate it carries, and the frame rate its pipeline
\* hands to the encoders is max(1, min(60, fps)).
C11_FpsClamped ==
  \A t \in Requests :
    /\ (req[t].pc = "done" /\ req[t].resp \notin {"NotFound", "InvalidState",
                                                  "ServerError", "InvalidInput"})
          => req[t].resp = "Accepted" /\ thr[t].pc # "none"
    /\ thr[t].pc # "none" =>
          thr[t].fps = Max(FPS_MIN, Min(FPS_MAX, req[t].fps))
\* C12: an upload is rejected with InvalidInput exactly when it has no valid
\* PNG file or more than MAX_FRAME_COUNT of them; a rejected upload changes
\* neither the Job Store nor the disk; an accepted one adds one record under
\* an id that was never used, with status uploaded and progress 0, and
\* leaves every other record as it was.
C12_RegisterValidates ==
  [][\A u \in Uploads :
       (up[u].resp = "none" /\ up'[u].resp # "none") =>
          IF up'[u].n = 0 \/ up'[u].n > MAX_FRAME_COUNT
          THEN /\ up'[u].resp = "InvalidInput"
               /\ UNCHANGED <<processing_jobs, job, fs>>
          ELSE /\ up'[u].resp = "Registered"
               /\ job[up'[u].job].status = "none"
               /\ up'[u].job \notin processing_jobs
               /\ processing_jobs' = processing_jobs \cup {up'[u].job}
               /\ job'[up'[u].job].status = "uploaded"
               /\ job'[up'[u].job].progress = 0
               /\ fs'[up'[u].job].dir
               /\ \A k \in JobIds \ {up'[u].job} :
                     job'[k] = job[k] /\ fs'[k] = fs[k]]_vars
\* C13: a GetArtifact whose id is not in the Job Store when the handler looks
\* it up is answered NotFound; one that finds a job that is not completed or
\* has no output recorded is answered NotReady; and an artifact is served only
\* for a job in the store that is completed and whose output file is on disk.
C13_GetArtifactGuards ==
  [][\A k \in Timers :
       (tm[k].pc \in {"unused", "known"} /\ tm'[k].pc \notin {"unused", "known"}) =>
          LET j == tm'[k].job
          IN  /\ j \notin processing_jobs => tm'[k].resp = "NotFound"
              /\ (j \in processing_jobs /\
                    (job[j].status # "completed" \/ job[j].output = "none"))
                    => tm'[k].resp = "NotReady"
              /\ tm'[k].resp = "Served" =>
                    /\ j \in processing_jobs
                    /\ job[j].status = "completed"
                    /\ job[j].output \in fs[j].out]_vars
\* the job of download k is out of the Job Store, its directory is gone, and
\* GetStatus and GetArtifact answer NotFound for its id
Removed(k) ==
  /\ tm[k].job \notin processing_jobs
  /\ ~fs[tm[k].job].dir
  /\ get_status(tm[k].job).code = "NotFound"

C15_OutputOnlyIfCompleted ==
  \A j \in JobIds :
    (job[j].output # "none" \/ job[j].output_size \/ job[j].processing_time)
       => job[j].status = "completed"

\* C16: a job record has an error message only while its status is failed.
C16_ErrorOnlyIfFailed ==
  \A j \in JobIds : job[j].error # "none" => job[j].status = "failed"

\* the fields of a record that are frozen once the job is terminal
Outcome(r) == <<r.status, r.progress, r.output, r.output_size,
                r.processing_time, r.error>>

\* C17: once a job's status is completed or failed, no step changes its
\* status, progress, output path, output size, processing time or error.
C17_TerminalIsImmutable ==
  [][\A j \in JobIds :
       job[j].status \in Terminal => Outcome(job'[j]) = Outcome(job[j])]_vars

\* C18: in every state a reader can observe, a completed record has its
\* output path and output size (and, in app_new, its processing time), and a
\* failed record has its error message: GetStatus never answers completed
\* without the size, nor failed without the error.
C18_NoPartialTerminalRecord ==
  \A j \in processing_jobs :
    /\ get_status(j).status = "completed" =>
          /\ job[j].output # "none"
          /\ get_status(j).output_size
          /\ (app = "app_new" => get_status(j).processing_time)
    /\ get_status(j).status = "failed" => get_status(j).error # "none"
\* C19: when all registered files are there, after the rename loop
\* frame_<i>.png holds the frame that was uploaded under the i-th name in
\* sorted order, for every i below the number of registered names.
C19_RenameKeepsSortedOrder ==
  (rn.pc = "done" /\ rn.lost = {}) =>
     \A n \in 1..Len(rn.files) : rn.dir[FrameName(n - 1)] = rn.files[n]
\* the encoder invocations that were run for job j, by any of its pipeline
\* threads: <<t, n>> is the n-th command of thread t
Invocations(j) ==
  {x \in Requests \X (1..2) : x[1] \in ThreadsOf(j) /\ x[2] <= Len(thr[x[1]].ran)}

\* thread t has run palette generation and then the gif command on its palette
TwoPass(t) ==
  /\ Len(thr[t].ran) = 2
  /\ thr[t].ran[1].output = "palette.png"
  /\ thr[t].ran[2].inputs[2] = thr[t].ran[1].output
  /\ thr[t].ran[2].output = "output.gif"

\* C20: when a job has been completed and its pipeline is through, exactly
\* two encoder invocations have run for it if its codec is gif, the first
\* writing palette.png and the second reading that palette.png as its second
\* input and writing the artifact, and exactly one invocation otherwise.
C20_InvocationsPerCodec ==
  \A j \in JobIds :
    (/\ job[j].status = "completed"
     /\ job[j].output # "none"
     /\ ThreadsOf(j) # {}
     /\ \A t \in ThreadsOf(j) : thr[t].pc = "done")
    => IF job[j].output = "gif"
       THEN /\ Cardinality(Invocations(j)) = 2
            /\ \E t \in ThreadsOf(j) : TwoPass(t)
       ELSE /\ Cardinality(Invocations(j)) = 1
            /\ \E t \in ThreadsOf(j) :
                  /\ Len(thr[t].ran) = 1
                  /\ thr[t].ran[1].output = OutputFile(thr[t].codec)
\* the pipeline of thread t is through and has left its job failed after its
\* encoder was killed at the deadline / after an encoder exited non-zero
TimedOut(t) ==
  thr[t].pc = "done" /\ job[Job(t)].status = "failed" /\ Killed(t)
ExitedNonZero(t) ==
  /\ thr[t].pc = "done"
  /\ job[Job(t)].status = "failed"
  /\ (thr[t].r1 = "exit1" \/ thr[t].r2 = "exit1")

\* C21: of two jobs, one failed because its encoder ran past the deadline and
\* one failed because its encoder exited with a non-zero code, GetStatus
\* reports two different errors.
C21_TimeoutErrorDiffers ==
  \A t \in Requests, u \in Requests :
    (TimedOut(t) /\ ExitedNonZero(u) /\ Job(t) # Job(u))
       => get_status(Job(t)).error # get_status(Job(u)).error
\* C22: a pipeline sets its job to completed only when its final encoder has
\* exited with code 0 and the output file is on disk; and a pipeline that is
\* through has left its job completed or failed, completed only after an
\* exit with code 0.
C22_CompletedOnlyOnSuccess ==
  [][\A j \in JobIds : \A t \in ThreadsOf(j) :
       /\ (job[j].status # "completed" /\ job'[j].status = "completed") =>
             thr[t].r2 = "exit0" /\ OutputExists(t)
       /\ thr'[t].pc = "done" =>
             /\ job'[j].status \in Terminal
             /\ job'[j].status = "completed" => thr'[t].r2 = "exit0"]_vars
\* a pipeline of job j is executing: the job is processing and one of its
\* threads has not reached its end
Executing(j) ==
  /\ job[j].status = "processing"
  /\ \E t \in ThreadsOf(j) : thr[t].pc \notin {"done", "crashed"}

\* C23: no step, of the Reaper or of a post-download cleanup, removes the
\* working directory of a job whose pipeline is executing.
C23_NoDeleteWhileProcessing ==
  [][\A j \in JobIds : (fs[j].dir /\ ~fs'[j].dir) => ~Executing(j)]_vars
\* C24: when the rmtree of a job's directory raises during a sweep, the
\* Reaper stays alive and goes on to delete that job's record, with the rest
\* of the sweep (the other jobs of jobs_to_remove) still before it.
C24_SweepAbsorbsRmtreeFailure ==
  [][(/\ reaper.pc = "rmtree"
      /\ reaper' # reaper
      /\ fs'[reaper.cur].rmfail
      /\ fs' # fs)
     => /\ reaper'.pc = "del"
        /\ reaper'.cur = reaper.cur
        /\ reaper'.todo = reaper.todo]_vars
\* C25: once a StartJob has been answered Accepted, GetStatus does not report
\* uploaded for its job.
C25_AcceptedHasLeftUploaded ==
  \A r \in Requests :
    (req[r].resp = "Accepted" /\ req[r].job \in processing_jobs)
       => get_status(req[r].job).status # "uploaded"
\* C26: in app_new, a step that changes a job's status to processing leaves
\* updated_at at the current time, and so does the step with which a pipeline
\* ends after it has written completed or failed, on every path: updated_at
\* is then not older than the status.
C26_UpdatedAtFollowsStatus ==
  [][app = "app_new" =>
       /\ \A j \in JobIds :
             (job[j].status # "processing" /\ job'[j].status = "processing")
                => job'[j].updated_at = now
       /\ \A t \in Requests :
             (thr[t].pc # "done" /\ thr'[t].pc = "done")
                => job'[Job(t)].updated_at = now]_vars
\* C27: in app_new no encoder is alive outside the wait of the function that
\* spawned it: once _process_gif or _process_video has returned, each encoder
\* it spawned has exited with code 0, exited with a non-zero code, or was
\* killed.
C27_NoChildLeftRunning ==
  \A t \in Requests :
    app = "app_new" =>
      /\ thr[t].r1 \in {"running", "hung"} => thr[t].pc = "gif1_wait"
      /\ thr[t].r2 \in {"running", "hung"} => thr[t].pc = "final_wait"
\* a line was read in this step: one with a frame count ("set"), or one that
\* has no frame= ("no token"), nothing after it ("IndexError") or a word after
\* it that is not an integer ("ValueError")
ReadAs(o) == pg'.read = pg.read + 1 /\ pg'.last = o

\* C28: a line of encoder output that carries a frame count c >= 0, on a job
\* of n >= 1 frames, sets progress to min(100, floor(c * 100 / n)), which
\* lies within 0..100.  Stated for the lines the loop has read to their end.
C28_ProgressIsFloor ==
  [][(ReadAs("set") /\ pg'.pc = "loop" /\ pg'.current_frame >= 0)
       => /\ pg'.progress = Min(100, (pg'.current_frame * 100) \div pg.n)
          /\ pg'.progress \in 0..100]_vars

\* C29: a line without a frame-count token (no frame= at all, or nothing
\* after it), or with one that is not an integer, leaves progress, status and
\* error of the job as they were, and the loop goes on to the next line.
C29_MalformedLineIgnored ==
  [][(ReadAs("no token") \/ ReadAs("IndexError") \/ ReadAs("ValueError"))
       => /\ pg'.progress = pg.progress
          /\ pg'.status = pg.status
          /\ pg'.error = pg.error
          /\ pg'.pc = "loop"]_vars

\* C30: while the final encoder of _process_video runs, every line with a
\* frame count that it has printed has been handed to the progress computation
\* and the result written to the job: GetStatus reports the progress of the
\* last frame count printed, which is above 0.
C30_ProgressFollowsOutput ==
  \A t \in Requests :
    (/\ app = "app_new"
     /\ thr[t].pc = "final_wait"
     /\ thr[t].codec # "gif"
     /\ thr[t].frame > 0
     /\ Job(t) \in processing_jobs)
      => /\ get_status(Job(t)).progress = Progress(thr[t].frame, job[Job(t)].nfiles)
         /\ get_status(Job(t)).progress > 0

\* the files of the job directory
Present(d) == {f \in FileNames : d[f] # "none"}

\* the file that this turn of the rename loop is about is missing
SourceMissing ==
  /\ rn.pc = "loop"
  /\ rn.i < Len(rn.files)
  /\ rn.dir[rn.files[rn.i + 1]] = "none"

\* C31: a registered frame whose file is missing when its turn of the rename
\* loop comes is skipped: the directory stays as it is, the loop goes on with
\* the next frame and ends without having failed.
C31_MissingSourceSkipped ==
  [][(SourceMissing /\ rn' # rn)
       => /\ rn'.pc = "loop"
          /\ rn'.i = rn.i + 1
          /\ rn'.dir = rn.dir]_vars

\* C33: the rename loop never destroys a frame: at every point of the loop the
\* directory holds as many files as before the loop, the registered names
\* that had a file.
C33_RenameKeepsFrameCount ==
  Cardinality(Present(rn.dir)) =
     Cardinality({rn.files[n] : n \in 1..Len(rn.files)} \ rn.lost)

\* the numbers i with a file frame_<i>.png in the directory
Canonical(d) == {i \in 0..(Len(NameOrder) - 3) : d[FrameName(i)] # "none"}

\* C34: when the rename loop is through, the canonical files of the directory
\* are frame_0000.png up to frame_<k-1>.png for some k, without a gap.
C34_CanonicalWithoutGap ==
  rn.pc = "done" =>
     \A i \in Canonical(rn.dir) : \A k \in 0..(i - 1) : k \in Canonical(rn.dir)

\* the pipeline of thread t is through and has left its job failed because
\* palette generation did not succeed / because the final encoder did not
FailedInPalette(t) ==
  /\ thr[t].pc = "done"
  /\ job[Job(t)].status = "failed"
  /\ PaletteFailed(t)
FinalFailed(t) ==
  /\ thr[t].pc = "done"
  /\ job[Job(t)].status = "failed"
  /\ thr[t].r2 \in {"exit1", "killed"}

\* C32: of two jobs, one failed in palette generation and one failed in the
\* final encoding phase, GetStatus reports two different errors.
C32_PaletteErrorDiffers ==
  \A t \in Requests, u \in Requests :
    (FailedInPalette(t) /\ FinalFailed(u) /\ Job(t) # Job(u))
       => get_status(Job(t)).error # get_status(Job(u)).error

\* job j was registered and has been deleted from the Job Store
Deleted(j) == j \in Used /\ j \notin processing_jobs

\* an encoder of thread t is alive
EncoderAlive(t) == thr[t].r1 \in {"running", "hung"} \/ thr[t].r2 \in {"running", "hung"}

\* C35: once a job has been deleted, by the Reaper or by a post-download
\* cleanup, no encoder of the job is running.
C35_NoEncoderAfterDelete ==
  \A j \in JobIds : Deleted(j) => \A t \in ThreadsOf(j) : ~EncoderAlive(t)

\* C36: a sweep of the Reaper during which jobs are registered or removed by
\* cleanup_job completes, after it no job that was past the TTL when it began
\* is in the Job Store, and the Reaper thread lives on.
C36_SweepSurvivesConcurrency ==
  /\ sw.pc # "dead"
  /\ sw.ended \in {"none", "completed"}
  /\ (sw.ended = "completed" => sw.expired \cap Live(sw.entries) = {})

\* C37: a job id that has been removed from the Job Store is never a key of
\* it again, whatever a pipeline thread of the job still writes, and
\* GetStatus for it answers NotFound from then on.
C37_DeletedStaysDeleted ==
  [][\A j \in JobIds :
       Deleted(j) => /\ j \notin processing_jobs'
                     /\ get_status(j)'.code = "NotFound"]_vars

\* a job has been removed while one of its pipeline threads is in the middle
\* of the writes of the completed branch: status and output are written, the
\* size is still to come
C37_Witness ==
  \E j \in JobIds : \E t \in ThreadsOf(j) :
    /\ Deleted(j)
    /\ thr[t].pc = "c_size"
    /\ job[j].status = "completed"
    /\ job[j].output # "none"

\* C38: the counters of app_new stay consistent: active_jobs is never
\* negative, and completed_jobs and failed_jobs together never exceed
\* total_jobs.
C38_StatsConsistent ==
  app = "app_new" =>
    /\ app_stats.active_jobs >= 0
    /\ app_stats.completed_jobs + app_stats.failed_jobs <= app_stats.total_jobs

====
